---- MODULE Spec2Model ----
(***************************************************************************)
(* RecordsToTreeConverter (converter/records_to_tree_converter.py): a      *)
(* flat list of records is grouped into a tree by an ordered list of       *)
(* nesting levels and exported as a nested JSON object.                    *)
(*                                                                         *)
(* JSON scalars are modelled as the Python objects json.loads produces:    *)
(* a string is its sequence of code points, a number its integer value, a  *)
(* boolean the integer Python treats it as.  The tree of anytree nodes is  *)
(* an arena: node 0 is the root, node i >= 1 is nodes[i].                  *)
(***************************************************************************)
EXTENDS Integers, Sequences, FiniteSets, TLC

VARIABLES
    nesting_levels,  \* self.nesting_levels
    nodes,           \* the nodes below self.root_node, in creation order
    op,              \* the method called last
    input,           \* its argument
    error,           \* the exception it raised, "None" when it returned
    missing_count,   \* the count in DataAttributeMissingError's message
    stderr,          \* the records whose diagnostic line the call wrote
    built,           \* how many records the call built and gave a payload
    ret,             \* what the call returned
    args,            \* the arguments of the last direct _build_branch call
    leaf_node,       \* the node _build_branch returned
    pre_nodes,       \* the tree when the last building call started
    seen,            \* the nesting-value tuples of the records built so far
    pre_seen         \* seen, when the last building call started

vars == <<nesting_levels, nodes, op, input, error, missing_count, stderr,
          built, ret, args, leaf_node, pre_nodes, seen, pre_seen>>

(***************************************************************************)
(* Bounds of the model.                                                    *)
(***************************************************************************)
MaxRecords == 2      \* longest input list

(***************************************************************************)
(* Python values.                                                          *)
(***************************************************************************)
StrV(s) == [t |-> "str", s |-> s, n |-> 0]
IntV(n) == [t |-> "int", s |-> <<>>, n |-> n]
BoolV(b) == [t |-> "bool", s |-> <<>>, n |-> IF b THEN 1 ELSE 0]

\* "EUR", "true", "false" as code points
EUR == <<69, 85, 82>>
TrueText == <<116, 114, 117, 101>>
FalseText == <<102, 97, 108, 115, 101>>

\* node.name == next_level: Python's ==, under which a bool is the int 0/1
PyEq(a, b) ==
    IF a.t = "str" \/ b.t = "str" THEN a = b ELSE a.n = b.n

\* str < str: lexicographic on code points
RECURSIVE LexLess(_, _)
LexLess(s, u) ==
    IF u = <<>> THEN FALSE
    ELSE IF s = <<>> THEN TRUE
    ELSE IF Head(s) # Head(u) THEN Head(s) < Head(u)
    ELSE LexLess(Tail(s), Tail(u))

\* Python's < is defined between two strings and between two numbers only
Comparable(a, b) == (a.t = "str") <=> (b.t = "str")

PyLess(a, b) ==
    IF a.t = "str" THEN LexLess(a.s, b.s) ELSE a.n < b.n

\* str(int)
RECURSIVE Digits(_)
Digits(n) ==
    IF n < 10 THEN <<48 + n>> ELSE Append(Digits(n \div 10), 48 + (n % 10))

\* the key json.dumps writes for a dict key
KeyStr(v) ==
    CASE v.t = "str" -> v.s
      [] v.t = "int" -> Digits(v.n)
      [] v.t = "bool" -> IF v.n = 1 THEN TrueText ELSE FalseText

(***************************************************************************)
(* Records and decoded input documents.                                    *)
(***************************************************************************)
EmptyRecord == <<>>

Keys(record) == DOMAIN record

\* the records the inputs are made of
Records ==
    { ("currency" :> IntV(1)) @@ ("city" :> IntV(9)) @@ ("amount" :> IntV(5)),
      ("currency" :> IntV(1)) @@ ("city" :> IntV(10)),
      ("currency" :> BoolV(TRUE)) @@ ("city" :> IntV(10)) @@ ("amount" :> IntV(5)),
      ("currency" :> StrV(EUR)) @@ ("amount" :> IntV(7)) }

\* an element of a decoded JSON array: an object (a dict) or anything else
DictElement(r) == [kind |-> "object", rec |-> r]
ScalarElement == [kind |-> "scalar", rec |-> EmptyRecord]
Elements == {DictElement(r) : r \in Records} \cup {ScalarElement}

RECURSIVE SeqsUpTo(_, _)
SeqsUpTo(S, n) ==
    IF n = 0 THEN {<<>>}
    ELSE LET shorter == SeqsUpTo(S, n - 1)
         IN shorter \cup {Append(s, e) : s \in {q \in shorter : Len(q) = n - 1}, e \in S}

\* the text handed to create_tree, by what json.loads makes of it
Malformed == [kind |-> "malformed", truthy |-> FALSE, items |-> <<>>]
NullDoc == [kind |-> "scalar", truthy |-> FALSE, items |-> <<>>]
StringDoc == [kind |-> "scalar", truthy |-> TRUE, items |-> <<>>]
ObjectDoc == [kind |-> "object", truthy |-> TRUE, items |-> <<>>]
ArrayDoc(s) == [kind |-> "array", truthy |-> s # <<>>, items |-> s]

Decoded == {NullDoc, StringDoc, ObjectDoc} \cup {ArrayDoc(s) : s \in SeqsUpTo(Elements, MaxRecords)}
Texts == {Malformed} \cup Decoded

LevelLists == {<<>>, <<"currency">>, <<"currency", "city">>}

(***************************************************************************)
(* The tree.                                                               *)
(***************************************************************************)
Root == 0
NoNode == -1

NewNode(name, parent) == [name |-> name, parent |-> parent, values |-> <<>>]

Ids(ns) == [i \in 1..Len(ns) |-> i]

\* current_node.children, in insertion order
Children(ns, p) == SelectSeq(Ids(ns), LAMBDA i : ns[i].parent = p)

IsLeaf(ns, p) == Children(ns, p) = <<>>

RECURSIVE Depth(_, _)
Depth(ns, i) == IF i = Root THEN 0 ELSE 1 + Depth(ns, ns[i].parent)

Range(s) == {s[i] : i \in DOMAIN s}

Some(v) == [some |-> TRUE, v |-> v]
NoneLevels == [some |-> FALSE, v |-> <<>>]
NoneRecord == [some |-> FALSE, v |-> EmptyRecord]

(***************************************************************************)
(* _validate_input_data                                                    *)
(***************************************************************************)
\* a variant of the loop that stops at the first offending record
CountMissingFirst(levels, items, i, acc) ==
    LET offending == {j \in i..Len(items) : Range(levels) \ Keys(items[j].rec) # {}}
    IN IF offending = {} THEN acc
       ELSE LET first == CHOOSE j \in offending : \A k \in offending : j <= k
            IN [count |-> acc.count + 1, lines |-> Append(acc.lines, items[first].rec)]

\* the loop of lines 54-59 over input_data[i..]
RECURSIVE CountMissing(_, _, _, _)
CountMissing(levels, items, i, acc) ==
    IF i > Len(items) THEN acc
    ELSE LET record == items[i].rec
             missing_elements == Range(levels) \ Keys(record)
         IN IF missing_elements # {}
            THEN CountMissing(levels, items, i + 1,
                     [count |-> acc.count + 1, lines |-> Append(acc.lines, record)])
            ELSE CountMissing(levels, items, i + 1, acc)

\* a variant that is content with one dict among the elements
_validate_input_data_any(levels, input_data) ==
    LET is_input_data_a_list == input_data.kind = "array"
        input_data_contains_only_dicts ==
            IF is_input_data_a_list
            THEN \E i \in DOMAIN input_data.items : input_data.items[i].kind = "object"
            ELSE TRUE
    IN IF ~(input_data.truthy /\ is_input_data_a_list /\ input_data_contains_only_dicts)
       THEN [error |-> "InvalidDataStructureError", count |-> 0, lines |-> <<>>]
       ELSE LET m == CountMissing(levels, input_data.items, 1, [count |-> 0, lines |-> <<>>])
            IN IF m.count # 0
               THEN [error |-> "DataAttributeMissingError", count |-> m.count, lines |-> m.lines]
               ELSE [error |-> "None", count |-> m.count, lines |-> m.lines]

_validate_input_data(levels, input_data) ==
    LET is_input_data_a_list == input_data.kind = "array"
        input_data_contains_only_dicts ==
            IF is_input_data_a_list
            THEN \A i \in DOMAIN input_data.items : input_data.items[i].kind = "object"
            ELSE TRUE
    IN IF ~(input_data.truthy /\ is_input_data_a_list /\ input_data_contains_only_dicts)
       THEN [error |-> "InvalidDataStructureError", count |-> 0, lines |-> <<>>]
       ELSE LET m == CountMissing(levels, input_data.items, 1, [count |-> 0, lines |-> <<>>])
            IN IF m.count # 0
               THEN [error |-> "DataAttributeMissingError", count |-> m.count, lines |-> m.lines]
               ELSE [error |-> "None", count |-> m.count, lines |-> m.lines]

(***************************************************************************)
(* _build_branch                                                           *)
(***************************************************************************)
Raise(ns, e) == [nodes |-> ns, error |-> e, node |-> NoNode]

\* a variant that accepts an empty record
IsMissingRecordNoneOnly(record) == ~record.some

\* line 96: record is None or not record
IsMissingRecord(record) == ~record.some \/ Keys(record.v) = {}

RECURSIVE _build_branch(_, _, _, _)
_build_branch(ns, remaining_nesting_levels, current_node, record) ==
    IF current_node = NoNode THEN Raise(ns, "MissingNodeError")
    ELSE IF IsMissingRecord(record) THEN Raise(ns, "MissingRecordError")
    ELSE IF remaining_nesting_levels.some /\ remaining_nesting_levels.v # <<>>
    THEN LET level == Head(remaining_nesting_levels.v)
             rest == Tail(remaining_nesting_levels.v)
         IN IF level \notin Keys(record.v) THEN Raise(ns, "KeyError")
            ELSE LET next_level == record.v[level]
                     existing_nodes ==
                         SelectSeq(Children(ns, current_node),
                                   LAMBDA i : PyEq(ns[i].name, next_level))
                 IN IF Len(existing_nodes) > 1
                    THEN Raise(ns, "DuplicateNodesFoundError")
                    ELSE IF existing_nodes # <<>> /\ rest = <<>>
                    THEN Raise(ns, "DuplicateNodesFoundError")
                    ELSE IF existing_nodes # <<>>
                    THEN _build_branch(ns, Some(rest), existing_nodes[1], record)
                    ELSE _build_branch(Append(ns, NewNode(next_level, current_node)),
                                       Some(rest), Len(ns) + 1, record)
    ELSE IF ~remaining_nesting_levels.some
            \/ (remaining_nesting_levels.v = <<>> /\ current_node = Root)
    THEN Raise(ns, "MissingNestingLevelsError")
    ELSE [nodes |-> ns, error |-> "None", node |-> current_node]

(***************************************************************************)
(* create_tree                                                             *)
(***************************************************************************)
\* lines 78-79: the payload of the leaf reached by a record
LeafValues(levels, record) ==
    LET remaining_keys == (Keys(record) \ Range(levels)) \cup (Range(levels) \ Keys(record))
    IN [error |-> IF remaining_keys \subseteq Keys(record) THEN "None" ELSE "KeyError",
        values |-> <<[k \in remaining_keys \cap Keys(record) |-> record[k]]>>]

\* a variant that attaches a payload only when attributes remain
SetValuesIfAny(ns, node, values) ==
    IF DOMAIN values[1] = {} THEN ns ELSE [ns EXCEPT ![node].values = values]

\* line 79: leaf_node.values = [...]
SetValues(ns, node, values) == [ns EXCEPT ![node].values = values]

\* the loop of lines 76-79 over loaded_data[i..]
RECURSIVE BuildRecords(_, _, _, _)
BuildRecords(ns, levels, items, i) ==
    IF i > Len(items) THEN [nodes |-> ns, error |-> "None", built |-> i - 1]
    ELSE LET record == items[i].rec
             b == _build_branch(ns, Some(levels), Root, Some(record))
             leaf == LeafValues(levels, record)
         IN IF b.error # "None"
            THEN [nodes |-> b.nodes, error |-> b.error, built |-> i - 1]
            ELSE IF leaf.error # "None"
            THEN [nodes |-> b.nodes, error |-> leaf.error, built |-> i - 1]
            ELSE BuildRecords(SetValues(b.nodes, b.node, leaf.values),
                              levels, items, i + 1)

\* a variant that restores the tree when a record fails to build
create_tree_rollback(ns, levels, input_data) ==
    IF input_data.kind = "malformed"
    THEN [nodes |-> ns, error |-> "JSONDecodeError", count |-> 0, lines |-> <<>>, built |-> 0]
    ELSE LET v == _validate_input_data(levels, input_data)
         IN IF v.error # "None"
            THEN [nodes |-> ns, error |-> v.error, count |-> v.count, lines |-> v.lines, built |-> 0]
            ELSE LET b == BuildRecords(ns, levels, input_data.items, 1)
                 IN [nodes |-> IF b.error = "None" THEN b.nodes ELSE ns,
                     error |-> b.error, count |-> 0, lines |-> <<>>, built |-> b.built]

create_tree(ns, levels, input_data) ==
    IF input_data.kind = "malformed"
    THEN [nodes |-> ns, error |-> "JSONDecodeError", count |-> 0, lines |-> <<>>, built |-> 0]
    ELSE LET v == _validate_input_data(levels, input_data)
         IN IF v.error # "None"
            THEN [nodes |-> ns, error |-> v.error, count |-> v.count, lines |-> v.lines, built |-> 0]
            ELSE LET b == BuildRecords(ns, levels, input_data.items, 1)
                 IN [nodes |-> b.nodes, error |-> b.error, count |-> 0, lines |-> <<>>,
                     built |-> b.built]

(***************************************************************************)
(* export_tree                                                             *)
(***************************************************************************)
NoOutput == [kind |-> "none", members |-> <<>>, items |-> <<>>]

\* a leaf whose values attribute was never set
UnsetLeaf(ns) == \E i \in DOMAIN ns : IsLeaf(ns, i) /\ ns[i].values = <<>>

\* the dict _export_layer fills for current_node, keys in insertion order
RECURSIVE _export_layer(_, _)
_export_layer(ns, current_node) ==
    IF IsLeaf(ns, current_node)
    THEN [kind |-> "list", members |-> <<>>, items |-> ns[current_node].values]
    ELSE LET kids == Children(ns, current_node)
         IN [kind |-> "dict",
             members |-> [j \in DOMAIN kids |->
                            [key |-> ns[kids[j]].name, val |-> _export_layer(ns, kids[j])]],
             items |-> <<>>]

\* sorted(dct.items()) raises TypeError on keys Python cannot order
RECURSIVE Unorderable(_)
Unorderable(obj) ==
    obj.kind = "dict"
    /\ \/ \E i, j \in DOMAIN obj.members :
             ~Comparable(obj.members[i].key, obj.members[j].key)
       \/ \E i \in DOMAIN obj.members : Unorderable(obj.members[i].val)

\* json.dumps(obj, sort_keys=True): members sorted by key, keys written as text
RECURSIVE json_dumps(_)
json_dumps(obj) ==
    IF obj.kind = "list"
    THEN [kind |-> "array", members |-> <<>>, items |-> obj.items]
    ELSE LET sorted == SortSeq(obj.members, LAMBDA a, b : PyLess(a.key, b.key))
         IN [kind |-> "object",
             members |-> [j \in DOMAIN sorted |->
                            [key |-> KeyStr(sorted[j].key), val |-> json_dumps(sorted[j].val)]],
             items |-> <<>>]

\* a variant without the guard of line 123
export_tree_unguarded(ns) ==
    IF IsLeaf(ns, Root) \/ UnsetLeaf(ns)
    THEN [error |-> "AttributeError", output |-> NoOutput]
    ELSE LET output_dict == _export_layer(ns, Root)
         IN IF Unorderable(output_dict)
            THEN [error |-> "TypeError", output |-> NoOutput]
            ELSE [error |-> "None", output |-> json_dumps(output_dict)]

export_tree(ns) ==
    IF Children(ns, Root) = <<>>
    THEN [error |-> "NoTreeCreatedError", output |-> NoOutput]
    ELSE IF UnsetLeaf(ns)
    THEN [error |-> "AttributeError", output |-> NoOutput]
    ELSE LET output_dict == _export_layer(ns, Root)
         IN IF Unorderable(output_dict)
            THEN [error |-> "TypeError", output |-> NoOutput]
            ELSE [error |-> "None", output |-> json_dumps(output_dict)]

(***************************************************************************)
(* The converter as a state machine.                                       *)
(***************************************************************************)
True == [kind |-> "True", members |-> <<>>, items |-> <<>>]

NoArgs == [levels |-> NoneLevels, node |-> NoNode, record |-> NoneRecord]

\* the values of a record for the nesting levels, in order
Tuple(levels, record) == [d \in DOMAIN levels |-> record[levels[d]]]

Init ==
    /\ nesting_levels \in LevelLists
    /\ nodes = <<>>
    /\ op = "__init__"
    /\ input = NullDoc
    /\ error = "None"
    /\ missing_count = 0
    /\ stderr = <<>>
    /\ built = 0
    /\ ret = NoOutput
    /\ args = NoArgs
    /\ leaf_node = NoNode
    /\ pre_nodes = <<>>
    /\ seen = {}
    /\ pre_seen = {}

\* converter.create_tree(text)
CreateTree ==
    \E text \in Texts :
        LET r == create_tree(nodes, nesting_levels, text)
        IN /\ nodes' = r.nodes
           /\ op' = "create_tree"
           /\ input' = text
           /\ error' = r.error
           /\ missing_count' = r.count
           /\ stderr' = r.lines
           /\ built' = r.built
           /\ ret' = NoOutput
           /\ pre_nodes' = nodes
           /\ pre_seen' = seen
           /\ seen' = seen \cup {Tuple(nesting_levels, text.items[j].rec) : j \in 1..r.built}
           /\ args' = NoArgs
           /\ leaf_node' = NoNode
           /\ UNCHANGED nesting_levels

\* converter.export_tree()
ExportTree ==
    LET r == export_tree(nodes)
    IN /\ op' = "export_tree"
       /\ error' = r.error
       /\ ret' = r.output
       /\ UNCHANGED <<nesting_levels, nodes, input, missing_count, stderr, built,
                      args, leaf_node, pre_nodes, seen, pre_seen>>

\* converter._validate_input_data(data), called with a decoded value
ValidateInputData ==
    \E data \in Decoded :
        LET r == _validate_input_data(nesting_levels, data)
        IN /\ op' = "_validate_input_data"
           /\ input' = data
           /\ error' = r.error
           /\ missing_count' = r.count
           /\ stderr' = r.lines
           /\ ret' = IF r.error = "None" THEN True ELSE NoOutput
           /\ built' = 0
           /\ args' = NoArgs
           /\ leaf_node' = NoNode
           /\ pre_nodes' = nodes
           /\ pre_seen' = seen
           /\ UNCHANGED <<nesting_levels, nodes, seen>>

\* The arguments of a direct call: the levels are absent, empty or a copy of
\* nesting_levels; the node is absent, the root or, with no levels left to
\* build, a node of the tree; the record is absent, empty or a record.
BranchArgs ==
    {a \in [levels : {NoneLevels, Some(<<>>), Some(nesting_levels)},
            node : {NoNode, Root} \cup DOMAIN nodes,
            record : {NoneRecord, Some(EmptyRecord)} \cup {Some(r) : r \in Records}] :
        a.node \in DOMAIN nodes => (~a.levels.some \/ a.levels.v = <<>>)}

\* converter._build_branch(levels, node, record)
BuildBranch ==
    \E a \in BranchArgs :
        LET r == _build_branch(nodes, a.levels, a.node, a.record)
        IN /\ nodes' = r.nodes
           /\ op' = "_build_branch"
           /\ args' = a
           /\ error' = r.error
           /\ leaf_node' = r.node
           /\ pre_nodes' = nodes
           /\ pre_seen' = seen
           /\ seen' = IF r.error = "None" /\ r.nodes # nodes
                      THEN seen \cup {Tuple(nesting_levels, a.record.v)}
                      ELSE seen
           /\ ret' = NoOutput
           /\ input' = NullDoc
           /\ missing_count' = 0
           /\ stderr' = <<>>
           /\ built' = 0
           /\ UNCHANGED nesting_levels

Next == CreateTree \/ ExportTree

Spec == Init /\ [][Next]_vars

NextInternal == ValidateInputData \/ BuildBranch \/ ExportTree

SpecInternal == Init /\ [][NextInternal]_vars

(***************************************************************************)
(* Vocabulary of the properties.                                           *)
(***************************************************************************)
K == Len(nesting_levels)

\* a decoded input that is not a non-empty list of objects
BadShape(d) ==
    \/ d.kind # "array"
    \/ Len(d.items) = 0
    \/ \E i \in DOMAIN d.items : d.items[i].kind # "object"

\* the positions of the records that lack a declared nesting attribute
Offending(d) ==
    {i \in DOMAIN d.items : ~(Range(nesting_levels) \subseteq DOMAIN d.items[i].rec)}

OffendingRecords(d) ==
    LET off == SelectSeq(d.items, LAMBDA e : ~(Range(nesting_levels) \subseteq DOMAIN e.rec))
    IN [j \in DOMAIN off |-> off[j].rec]

\* the labels from the root down to node i
RECURSIVE Path(_, _)
Path(ns, i) == IF i = Root THEN <<>> ELSE Append(Path(ns, ns[i].parent), ns[i].name)

RECURSIVE IsAncestorOrSelf(_, _, _)
IsAncestorOrSelf(ns, a, i) ==
    i = a \/ (i # Root /\ IsAncestorOrSelf(ns, a, ns[i].parent))

\* the attributes of a record that are not nesting levels
Residual(record) == [k \in DOMAIN record \ Range(nesting_levels) |-> record[k]]

\* the nesting-value tuples of the records of the last input, by position
InputTuples == [j \in DOMAIN input.items |-> Tuple(nesting_levels, input.items[j].rec)]

\* a path of the tree is the one the converter resolves a tuple to
Resolves(path, tuple) ==
    Len(path) = Len(tuple) /\ \A d \in DOMAIN path : PyEq(path[d], tuple[d])

\* new is old extended by exactly the branches and payloads of recs
ExtendedBy(old, new, recs) ==
    /\ Len(new) >= Len(old)
    /\ SubSeq(new, 1, Len(old)) = old
    /\ LET fresh == (Len(old) + 1)..Len(new)
           freshLeaves == {i \in fresh : new[i].values # <<>>}
       IN /\ Cardinality(freshLeaves) = Len(recs)
          /\ \A j \in DOMAIN recs : \E i \in freshLeaves :
                /\ Resolves(Path(new, i), Tuple(nesting_levels, recs[j]))
                /\ new[i].values = <<Residual(recs[j])>>
          /\ \A i \in fresh : \E l \in freshLeaves : IsAncestorOrSelf(new, i, l)

\* the paths of an exported object, each with the array it ends in
RECURSIVE OutputPaths(_)
OutputPaths(j) ==
    IF j.kind = "array" THEN {<<<<>>, j.items>>}
    ELSE UNION {{<<<<j.members[m].key>> \o q[1], q[2]>> : q \in OutputPaths(j.members[m].val)} :
                  m \in DOMAIN j.members}

\* the keys of every object of an exported value ascend lexicographically
RECURSIVE SortedKeys(_)
SortedKeys(j) ==
    /\ \A m \in 1..(Len(j.members) - 1) : LexLess(j.members[m].key, j.members[m + 1].key)
    /\ \A m \in DOMAIN j.members : SortedKeys(j.members[m].val)

Reorderings(s) ==
    {[i \in DOMAIN s |-> s[f[i]]] :
        f \in {g \in [DOMAIN s -> DOMAIN s] : \A a, b \in DOMAIN s : a # b => g[a] # g[b]}}

\* the last create_tree call was given a valid list of records with pairwise
\* distinct nesting-value tuples, on an empty tree
FreshDistinctInput ==
    /\ K >= 1
    /\ pre_nodes = <<>>
    /\ ~BadShape(input)
    /\ Offending(input) = {}
    /\ \A i, j \in DOMAIN input.items : i # j => InputTuples[i] # InputTuples[j]

(***************************************************************************)
(* C1  Duplicate detection: with at least one nesting level, create_tree   *)
(* raises DuplicateNodesFoundError on a record whose tuple of nesting      *)
(* values was built before (earlier in the input or by an earlier call),   *)
(* and never on a record whose tuple was not built before.                 *)
(***************************************************************************)
C1_DuplicateDetection ==
    (op = "create_tree" /\ K >= 1 /\ error \in {"None", "DuplicateNodesFoundError"}) =>
        LET before(j) == pre_seen \cup {InputTuples[i] : i \in 1..(j - 1)}
        IN /\ \A j \in 1..built : InputTuples[j] \notin before(j)
           /\ error = "None" => built = Len(input.items)
           /\ error = "DuplicateNodesFoundError" =>
                 InputTuples[built + 1] \in before(built + 1)

(***************************************************************************)
(* C2  Export correctness: create_tree on an empty tree with a valid list  *)
(* of records with pairwise distinct tuples, followed by export_tree,      *)
(* yields a nested mapping that maps each record's path of nesting values  *)
(* to the one-element list of its remaining attributes, and no other path. *)
(***************************************************************************)
C2_ExportCorrectness ==
    (op = "export_tree" /\ FreshDistinctInput) =>
        /\ error = "None"
        /\ OutputPaths(ret) =
              {<<[d \in DOMAIN InputTuples[j] |-> KeyStr(InputTuples[j][d])],
                 <<Residual(input.items[j].rec)>>>> : j \in DOMAIN input.items}

(***************************************************************************)
(* C3  Validation gate: create_tree fails with InvalidDataStructureError   *)
(* for every decoded input that is not a list, for the empty list and for  *)
(* every list with an element that is not an object, whatever the nesting  *)
(* levels and the other elements; nothing is built.                        *)
(***************************************************************************)
C3_ValidationGate ==
    (op = "create_tree" /\ input.kind # "malformed" /\ BadShape(input)) =>
        /\ error = "InvalidDataStructureError"
        /\ nodes = pre_nodes

C3_Witness ==
    /\ op = "create_tree"
    /\ input.kind = "array"
    /\ Len(input.items) = 2
    /\ input.items[1].kind = "object"
    /\ input.items[2].kind # "object"
    /\ error = "InvalidDataStructureError"

(***************************************************************************)
(* C4  Attribute completeness: for a non-empty list of objects with an     *)
(* offending record, _validate_input_data fails with                       *)
(* DataAttributeMissingError; the count it reports is the number of        *)
(* offending records and one diagnostic line is written for each of them,  *)
(* in order, so the first offender does not end the loop.  With no         *)
(* offending record it returns True and writes nothing.                    *)
(***************************************************************************)
C4_AttributeCompleteness ==
    (op = "_validate_input_data" /\ ~BadShape(input)) =>
        IF Offending(input) # {}
        THEN /\ error = "DataAttributeMissingError"
             /\ missing_count = Cardinality(Offending(input))
             /\ stderr = OffendingRecords(input)
             /\ ret = NoOutput
        ELSE /\ error = "None"
             /\ ret = True
             /\ stderr = <<>>

C4_Witness ==
    /\ op = "_validate_input_data"
    /\ error = "DataAttributeMissingError"
    /\ Cardinality(Offending(input)) = 2
    /\ missing_count = 2

(***************************************************************************)
(* C5  export_tree raises NoTreeCreatedError, and returns nothing, exactly *)
(* when the root has no children.                                          *)
(***************************************************************************)
C5_NoTreeCreated ==
    op = "export_tree" =>
        /\ (error = "NoTreeCreatedError") <=> (\A i \in DOMAIN nodes : nodes[i].parent # Root)
        /\ error = "NoTreeCreatedError" => ret = NoOutput

C5_Witness ==
    /\ op = "export_tree"
    /\ error = "NoTreeCreatedError"
    /\ input.kind = "array"
    /\ nodes = <<>>

(***************************************************************************)
(* C6  Export determinism: the keys at every nesting level of the output   *)
(* ascend lexicographically, and every permutation of a duplicate-free     *)
(* input exports identically.                                              *)
(***************************************************************************)
C6_ExportDeterminism ==
    (op = "export_tree" /\ error = "None") =>
        /\ SortedKeys(ret)
        /\ (FreshDistinctInput /\ built = Len(input.items)) =>
              \A items \in Reorderings(input.items) :
                  export_tree(create_tree(<<>>, nesting_levels, ArrayDoc(items)).nodes).output = ret

(***************************************************************************)
(* C7  Preconditions of _build_branch, in order: MissingNodeError for an   *)
(* absent node; else MissingRecordError for an absent or an empty record;  *)
(* else MissingNestingLevelsError for empty or absent levels at the root.  *)
(* None of the three adds a node, and a converter without nesting levels   *)
(* never builds anything.                                                  *)
(***************************************************************************)
C7_BranchPreconditions ==
    /\ K = 0 => nodes = <<>>
    /\ op = "_build_branch" =>
          /\ args.node = NoNode => error = "MissingNodeError"
          /\ (args.node # NoNode /\ (~args.record.some \/ args.record.v = EmptyRecord)) =>
                error = "MissingRecordError"
          /\ (args.node = Root /\ args.record.some /\ args.record.v # EmptyRecord
                /\ (~args.levels.some \/ args.levels.v = <<>>)) =>
                error = "MissingNestingLevelsError"
          /\ error \in {"MissingNodeError", "MissingRecordError", "MissingNestingLevelsError"} =>
                nodes = pre_nodes

C7_Witness ==
    /\ op = "_build_branch"
    /\ args.node = Root
    /\ args.record = Some(EmptyRecord)
    /\ args.levels = Some(nesting_levels)
    /\ K = 2
    /\ nodes # <<>>
    /\ error = "MissingRecordError"

(***************************************************************************)
(* C8  No rollback, nothing built before validation passes: a create_tree  *)
(* that fails in decoding or validation leaves the tree as it was; one     *)
(* that fails with DuplicateNodesFoundError at a record leaves the tree    *)
(* extended by exactly the branches and payloads of the records before it  *)
(* (a branch being the path the converter resolves the record to).  The    *)
(* nesting levels never change.                                            *)
(***************************************************************************)
C8_Step ==
    /\ nesting_levels' = nesting_levels
    /\ op' = "create_tree" =>
          /\ error' \in {"JSONDecodeError", "InvalidDataStructureError",
                         "DataAttributeMissingError"} => nodes' = nodes
          /\ error' = "DuplicateNodesFoundError" =>
                /\ built' < Len(input'.items)
                /\ ExtendedBy(nodes, nodes', [j \in 1..built' |-> input'.items[j].rec])

C8_NoRollback == [][C8_Step]_vars

C8_Witness ==
    /\ op = "create_tree"
    /\ error = "DuplicateNodesFoundError"
    /\ built >= 1
    /\ pre_nodes # <<>>
    /\ Len(nodes) > Len(pre_nodes)

(***************************************************************************)
(* C9  Leaf/internal invariant: with at least one nesting level, in every  *)
(* state reached by create_tree calls every node has children and no       *)
(* payload, or no children and a one-element payload; the nodes with a     *)
(* payload are exactly those at depth K.                                   *)
(***************************************************************************)
C9_LeafInternal ==
    K >= 1 =>
        \A i \in DOMAIN nodes :
            /\ \/ ~IsLeaf(nodes, i) /\ nodes[i].values = <<>>
               \/ IsLeaf(nodes, i) /\ Len(nodes[i].values) = 1
            /\ nodes[i].values # <<>> <=> Depth(nodes, i) = K

C9_Witness ==
    /\ K = 2
    /\ op = "create_tree"
    /\ error = "DuplicateNodesFoundError"
    /\ \E i \in DOMAIN nodes : Len(Children(nodes, i)) = 2
    /\ \E i \in DOMAIN nodes : nodes[i].values = <<EmptyRecord>>

(***************************************************************************)
(* C10  Sibling uniqueness and path determinism: no two children of a node *)
(* share a label, and for every depth d in 1..K the nodes at depth d       *)
(* correspond one-to-one to the distinct d-prefixes of the tuples of the   *)
(* records built so far.                                                   *)
(***************************************************************************)
C10_PathDeterminism ==
    K >= 1 =>
        /\ \A i, j \in DOMAIN nodes :
              (i # j /\ nodes[i].parent = nodes[j].parent) => nodes[i].name # nodes[j].name
        /\ \A d \in 1..K :
              LET at == {i \in DOMAIN nodes : Depth(nodes, i) = d}
              IN /\ {Path(nodes, i) : i \in at} = {SubSeq(t, 1, d) : t \in seen}
                 /\ \A i, j \in at : Path(nodes, i) = Path(nodes, j) => i = j

====
